---- MODULE Spec2Model ----
(***************************************************************************)
(* Verification model of the Personal-Website repository: the Home page    *)
(* view-state machines and the GraphNav navigation widget in its several   *)
(* variants.                                                               *)
(*                                                                         *)
(* Every pixel quantity is an integer number of hundredths of a pixel      *)
(* (Scale = 100), so that w / 2 and the 0.7 factor of the radius are exact.*)
(*                                                                         *)
(* Timers are untimed: a pending callback may run at any later moment, but *)
(* callbacks registered with the same delay by the same code run in the    *)
(* order in which they were registered (a queue).                          *)
(***************************************************************************)
EXTENDS Integers, Sequences, FiniteSets, TLC

\* ------------------------------------------------------------------ bounds
MaxSpinKey == 2      \* largest value a spinKey counter is explored to
MaxSize == 1         \* container sizes explored: SizeOf(0) .. SizeOf(MaxSize)
MaxSat == 1          \* satellites the user events are explored for
MaxGraphKey == 2     \* largest value graphKey is explored to (GraphNav remounts)
MaxPending == 2      \* GraphNav callbacks (SPIN_MS timers, animation loops, 200 ms timers) pending at once
ExpansionTicks == 1  \* clock ticks that make up the 1500 ms of an expansion
MaxCalls == 2        \* onSelect calls of the measured-edge GraphNav that are recorded
MaxText == 2         \* longest text prop of Typewriter, in characters
MaxRuns == 3         \* runs of the typing effect of Typewriter that are explored
MaxDim == 12         \* container widths and heights explored: up to MaxDim * 100 px
MaxRaf == 1          \* requestAnimationFrame(computeEdges) callbacks pending at once
MaxStep == 4         \* node offsets explored for edge trimming: up to MaxStep steps of 10 px per unit

\* --------------------------------------------------------------- constants
Scale == 10 * 10      \* hundredths of a pixel
NODE_DIAM == 88
HOME_DIAM == 104
MARGIN == 24

Max2(a, b) == IF a >= b THEN a ELSE b
Min2(a, b) == IF a <= b THEN a ELSE b

NODES == <<"home", "about", "education", "experience", "projects", "contact">>
NodeIds == {NODES[i] : i \in 1..Len(NODES)}
Satellites == NodeIds \ {"home"}
\* The nodes the user events are explored for: home and the first satellites.
SatIds == {NODES[i + 1] : i \in 1..Min2(MaxSat, Len(NODES) - 1)}
UserNodes == {"home"} \cup SatIds

\* The container sizes a measurement can report (px): not yet measured, a
\* desktop viewport, a narrow phone viewport, then ever larger squares.
SizeOf(i) ==
  CASE i = 0 -> [w |-> 0, h |-> 0]
    [] i = 1 -> [w |-> 800, h |-> 600]
    [] i = 2 -> [w |-> 360, h |-> 640]
    [] OTHER -> [w |-> 400 * i, h |-> 400 * i]
Sizes == {SizeOf(i) : i \in 0..MaxSize}

\* const cx = w / 2, cy = h / 2 with w = Math.max(0, size.w)
CenterOf(size) ==
  [x |-> (Max2(0, size.w) * Scale) \div 2, y |-> (Max2(0, size.h) * Scale) \div 2]

\* radius = Math.max(120, Math.min(cx, cy) - Math.max(NODE_DIAM, HOME_DIAM) * 0.7 - MARGIN)
RadiusOf(size) ==
  LET c == CenterOf(size)
      rCandidate == Min2(c.x, c.y) - (Max2(NODE_DIAM, HOME_DIAM) * 7 * Scale) \div 10
                      - MARGIN * Scale
  IN  Max2(120 * Scale, rCandidate)

VARIABLES
  mq,            \* window.matchMedia("(prefers-reduced-motion: reduce)").matches
  focus,         \* document.activeElement: "body", a node id or "heroHeading"
  \* --- zooming Home page (unnamed/part_004)
  z_view,        \* view: "graph" | "zooming" | "hero"
  z_origin,      \* origin
  z_reduced,     \* reduced
  z_timers,      \* pending 520 ms timers of handleSelect
  z_raf,         \* a requestAnimationFrame focus callback is pending
  \* --- spinning GraphNav (unnamed/part_000, second component)
  s_size,        \* size
  s_spinKey,     \* spinKey
  s_reduced,     \* reduced
  s_initTimer,   \* the SPIN_MS + 30 timer of the initial-spin effect is pending
  s_timers,      \* pending SPIN_MS timers of activate, oldest first; each holds
                 \* the closure: the centre and the parent's handleSelect
  \* --- current Home page (web/src/app/page.tsx)
  p_view,        \* view: "graph" | "revealing" | "hero"
  p_graphKey,    \* graphKey: the key of the mounted GraphNav instance
  p_reduced,     \* reduced
  p_origin,      \* origin
  p_route,       \* the route shown: "/" is Home, router.push(href) changes it
  p_timers,      \* pending 520 ms timers of handleSelect (the href to push)
  \* --- GraphNav (web/src/components/graph/GraphNav.tsx), the mounted instance
  g_variant,     \* which component of the file it is: "expansion" | "modal"
  g_size,        \* size
  g_ready,       \* ready
  g_spinKey,     \* spinKey
  h_initialSpins, \* how often the initial-spin timer of this instance has incremented spinKey
  g_reduced,     \* reduced
  g_readyTimer,  \* the 100 ms readyTimer of the size effect is pending
  g_spinTimer,   \* the 1000 ms spinTimer of the size effect is pending
  g_expandingNode,      \* expandingNode (expansion variant), "null" or a node id
  g_expansionProgress,  \* expansionProgress, in ticks out of ExpansionTicks
  g_expansionOrigin,    \* expansionOrigin
  g_showContent,        \* showContent
  g_isModalOpen,        \* isModalOpen (modal variant)
  g_selectedNode,       \* selectedNode, "null" or a node id
  \* --- callbacks of GraphNav instances that nothing cancels; `owner` is the
  \*     graphKey of the instance that scheduled them
  c_spin,        \* SPIN_MS timers of activate, oldest first
  c_loops,       \* animate loops of startSphereExpansion, in requestAnimationFrame order
  c_show,        \* 200 ms timers of animate, oldest first
  \* --- measured-edge GraphNav (unnamed/part_001)
  e_hasOnSelect,    \* the onSelect prop is supplied
  e_currentView,    \* the currentView prop, "undefined" when not supplied
  e_containerSize,  \* containerSize
  e_edgesDisabled,  \* edgesDisabled
  e_hoveredId,      \* hoveredId, "null" or a node id
  e_pointer,        \* the node button the pointer is over, or "none"
  e_calls,          \* the calls onSelect(node, ...) made so far, oldest first
  e_edgeTimer,   \* the setTimeout(computeEdges, 10) of the edge effect is pending
  e_rafs,        \* pending requestAnimationFrame(computeEdges) callbacks
  e_isAnimating, \* isAnimating
  e_edges,       \* edges: "none" ([]) or "drawn" (one edge per satellite)
  \* --- Typewriter (web/src/components/ui/Typewriter.tsx)
  t_mounted,        \* the component is mounted
  t_text,           \* the text prop, a sequence of characters
  t_speedMs,        \* the speedMs prop
  t_startDelayMs,   \* the startDelayMs prop
  t_display,        \* display
  t_reduced,        \* reduced
  t_listening,      \* the "change" listener of the media query is registered
  t_dirty,          \* a render was committed whose passive effects (cleanup of
                    \* the last run, then the effects) have not run yet
  t_run,            \* the run of the typing effect whose cleanup has not run, 0 if none
  t_runs,           \* how many times the typing effect has run
  t_timers,         \* the pending timers: the closure of each, with the run that
                    \* scheduled it, "start" (setTimeout) or "interval", i and text
  \* --- history, not program state
  \* --- satellite layout (unnamed/part_000, unnamed/part_001, GraphNav.tsx)
  l_part,        \* the component laid out: "part_000" | "part_001" | "GraphNav.tsx"
  l_size,        \* containerSize / size: the measured width and height (px)
  l_positions,   \* nodePositions / positions: <<>> before the first measurement
  \* --- edge trimming (unnamed/part_001 computeTrimmedEdge, GraphNav.tsx edges)
  r_fn,          \* the function applied last: "none" | "computeTrimmedEdge" | "edges"
  r_args,        \* its arguments (px)
  r_edge,        \* the edge it returned (thousandths of a pixel)
  h_closedBy     \* the event by which the handler that ran last closed the content
                 \* or the modal: "home" | "click" | "backdrop" | "button" |
                 \* "escape", and "none" when it did not close anything

zvars == <<z_view, z_origin, z_reduced, z_timers, z_raf>>
svars == <<s_size, s_spinKey, s_reduced, s_initTimer, s_timers>>
pvars == <<p_view, p_graphKey, p_reduced, p_origin, p_route, p_timers>>
gvars == <<g_variant, g_size, g_ready, g_spinKey, h_initialSpins, g_reduced, g_readyTimer, g_spinTimer,
           g_expandingNode, g_expansionProgress, g_expansionOrigin, g_showContent,
           g_isModalOpen, g_selectedNode>>
cvars == <<c_spin, c_loops, c_show>>
eSched == <<e_edgeTimer, e_rafs, e_isAnimating, e_edges>>
evars == <<e_hasOnSelect, e_currentView, e_containerSize, e_edgesDisabled, e_hoveredId,
           e_pointer, e_calls, eSched>>
tvars == <<t_mounted, t_text, t_speedMs, t_startDelayMs, t_display, t_reduced,
           t_listening, t_dirty, t_run, t_runs, t_timers>>
lvars == <<l_part, l_size, l_positions>>
rvars == <<r_fn, r_args, r_edge>>
vars == <<mq, focus, zvars, svars, pvars, gvars, cvars, evars, tvars, lvars, rvars, h_closedBy>>

\* Everything outside the zooming Home page and its GraphNav.
notZoom == <<pvars, gvars, cvars, evars, tvars, lvars, rvars, h_closedBy>>
\* Everything outside the current Home page and its GraphNav.
notPage == <<zvars, svars, evars, tvars, lvars, rvars>>
\* Everything outside the measured-edge GraphNav.
notEdge == <<mq, zvars, svars, pvars, gvars, cvars, tvars, lvars, rvars, h_closedBy>>
\* Everything outside Typewriter (the media query aside).
notType == <<focus, zvars, svars, pvars, gvars, cvars, evars, lvars, rvars, h_closedBy>>
\* Everything outside the satellite layout.
notLayout == <<mq, focus, zvars, svars, pvars, gvars, cvars, evars, tvars, rvars, h_closedBy>>
\* Everything outside edge trimming.
notTrim == <<mq, focus, zvars, svars, pvars, gvars, cvars, evars, tvars, lvars, h_closedBy>>

\* ================================================================== Home
\* (unnamed/part_004)

\* handleSelect with the reduced-motion branch lost: it always zooms.
HandleSelectZ_AlwaysZoom(node, center, reduced) ==
  IF node # "home"
  THEN UNCHANGED zvars
  ELSE /\ z_origin' = center
       /\ z_reduced' = z_reduced
       /\ z_view' = "zooming"
       /\ z_timers' = z_timers + 1
       /\ z_raf' = z_raf

\* function handleSelect(node, center), as the closure of a render in which
\* the state variable `reduced` had the value `reduced`.
HandleSelectZ(node, center, reduced) ==
  IF node # "home"
  THEN UNCHANGED zvars
  ELSE /\ z_origin' = center
       /\ z_reduced' = z_reduced
       /\ IF reduced
          THEN /\ z_view' = "hero"
               /\ z_raf' = TRUE
               /\ z_timers' = z_timers
          ELSE /\ z_view' = "zooming"
               /\ z_timers' = z_timers + 1
               /\ z_raf' = z_raf

\* The 520 ms timer with its setView("hero") lost.
ZoomTimerZ_NoReveal ==
  /\ z_timers > 0
  /\ z_timers' = z_timers - 1
  /\ z_raf' = TRUE
  /\ UNCHANGED <<z_view, z_origin, z_reduced, mq, focus, svars>>
  /\ UNCHANGED notZoom

\* The 520 ms timer of handleSelect runs.
ZoomTimerZ ==
  /\ z_timers > 0
  /\ z_timers' = z_timers - 1
  /\ z_view' = "hero"
  /\ z_raf' = TRUE
  /\ UNCHANGED <<z_origin, z_reduced, mq, focus, svars>>
  /\ UNCHANGED notZoom

\* requestAnimationFrame(() => heroHeadingRef.current?.focus()): the heading
\* is rendered only while view = "hero".
RafFocusZ ==
  /\ z_raf
  /\ z_raf' = FALSE
  /\ focus' = IF z_view = "hero" THEN "heroHeading" ELSE focus
  /\ UNCHANGED <<z_view, z_origin, z_reduced, z_timers, mq, svars>>
  /\ UNCHANGED notZoom

\* ============================================================== GraphNav
\* (unnamed/part_000, lines 213-471)

\* The initial-spin effect body, run for the dependencies (size, reduced):
\* the new spinKey and whether its timer is pending afterwards.
SpinEffectS(size, reduced, key) ==
  IF ~reduced /\ size.w > 0 /\ size.h > 0
  THEN [key |-> key + 1, timer |-> TRUE]
  ELSE [key |-> key, timer |-> FALSE]

\* The ResizeObserver callback: setSize, then the effect's cleanup and re-run.
ResizeS(size) ==
  /\ size # s_size
  /\ LET e == SpinEffectS(size, s_reduced, s_spinKey)
     IN  /\ e.key <= MaxSpinKey
         /\ s_spinKey' = e.key
         /\ s_initTimer' = e.timer
  /\ s_size' = size
  /\ UNCHANGED <<s_reduced, s_timers, mq, focus, zvars>>
  /\ UNCHANGED notZoom

\* The media query changes: both components' listeners run setReduced, and the
\* initial-spin effect of GraphNav is cleaned up and re-run.
MqChangeZ ==
  /\ mq' = ~mq
  /\ z_reduced' = mq'
  /\ s_reduced' = mq'
  /\ LET e == SpinEffectS(s_size, mq', s_spinKey)
     IN  /\ e.key <= MaxSpinKey
         /\ s_spinKey' = e.key
         /\ s_initTimer' = e.timer
  /\ UNCHANGED <<s_size, s_timers, focus, z_view, z_origin, z_timers, z_raf>>
  /\ UNCHANGED notZoom

\* The SPIN_MS + 30 timer of the effect: setSpinKey((k) => k).
InitTimerS ==
  /\ s_initTimer
  /\ s_initTimer' = FALSE
  /\ UNCHANGED <<s_size, s_spinKey, s_reduced, s_timers, mq, focus, zvars>>
  /\ UNCHANGED notZoom

\* function activate(node): blur, then spin and notify the parent.
ActivateS(node) ==
  /\ focus' = "body"
  /\ IF node = "home" /\ ~s_reduced
     THEN /\ s_spinKey < MaxSpinKey
          /\ s_spinKey' = s_spinKey + 1
          /\ s_timers' = Append(s_timers,
                                [center |-> CenterOf(s_size), reduced |-> z_reduced])
          /\ UNCHANGED zvars
     ELSE /\ HandleSelectZ(node, CenterOf(s_size), z_reduced)
          /\ UNCHANGED <<s_spinKey, s_timers>>
  /\ UNCHANGED <<s_size, s_reduced, s_initTimer, mq>>
  /\ UNCHANGED notZoom

\* The graph wrapper has pointer-events-none only in the hero view.
ClickS(node) ==
  /\ z_view # "hero"
  /\ ActivateS(node)

\* Tab moves the keyboard focus to a node button.
TabS(node) ==
  /\ focus # node
  /\ focus' = node
  /\ UNCHANGED <<mq, zvars, svars>>
  /\ UNCHANGED notZoom

\* onKeyDown with Enter or Space on the focused button.
KeyS(node) ==
  /\ focus = node
  /\ ActivateS(node)

\* The oldest SPIN_MS timer of activate runs: onSelect?.(node, { x: cx, y: cy }).
SpinTimerS ==
  /\ s_timers # <<>>
  /\ s_timers' = Tail(s_timers)
  /\ HandleSelectZ("home", Head(s_timers).center, Head(s_timers).reduced)
  /\ UNCHANGED <<s_size, s_spinKey, s_reduced, s_initTimer, mq, focus>>
  /\ UNCHANGED notZoom

\* ================================================================== Home
\* (web/src/app/page.tsx) with the GraphNav of web/src/components/graph/GraphNav.tsx

\* Whether the GraphNav instance that scheduled a callback is still mounted.
Alive(owner) == p_route = "/" /\ owner = p_graphKey

\* <GraphNav key={graphKey} />: the state of a freshly mounted instance, its
\* effects having run (reduced = mq.matches; the size is measured later).
MountG ==
  /\ g_size' = SizeOf(0)
  /\ g_ready' = FALSE
  /\ g_spinKey' = 0
  /\ h_initialSpins' = 0
  /\ g_reduced' = mq
  /\ g_readyTimer' = FALSE
  /\ g_spinTimer' = FALSE
  /\ g_expandingNode' = "null"
  /\ g_expansionProgress' = 0
  /\ g_expansionOrigin' = [x |-> 0, y |-> 0]
  /\ g_showContent' = FALSE
  /\ g_isModalOpen' = FALSE
  /\ g_selectedNode' = "null"
  /\ g_variant' = g_variant

\* The href of a node in NODES of GraphNav.tsx (expansion variant).
HrefOf(node) == IF node = "home" THEN "/" ELSE "/" \o node

\* function handleSelect(node, center) of page.tsx, called through onSelect.
\* On a Home page that is no longer mounted the state setters do nothing.
HandleSelectP(node, center) ==
  IF p_route # "/"
  THEN UNCHANGED <<pvars, gvars>>
  ELSE IF node = "home"
  THEN /\ p_graphKey < MaxGraphKey
       /\ p_graphKey' = p_graphKey + 1
       /\ MountG
       /\ UNCHANGED <<p_view, p_reduced, p_origin, p_route, p_timers>>
  ELSE /\ p_origin' = center
       /\ IF p_reduced
          THEN /\ p_route' = HrefOf(node)
               /\ UNCHANGED <<p_view, p_timers>>
          ELSE /\ p_view' = "revealing"
               /\ p_timers' = Append(p_timers, HrefOf(node))
               /\ p_route' = p_route
       /\ UNCHANGED <<p_graphKey, p_reduced, gvars>>

\* The 520 ms timer of handleSelect: router.push(node.href).
RouteTimerP ==
  /\ p_timers # <<>>
  /\ p_timers' = Tail(p_timers)
  /\ p_route' = Head(p_timers)
  /\ UNCHANGED <<p_view, p_graphKey, p_reduced, p_origin, mq, focus, gvars, cvars>>
  /\ UNCHANGED <<notPage, h_closedBy>>

\* onTransitionEnd of the hero layer, for the CSS property `property`.
OnTransitionEndP(property) ==
  /\ p_route = "/"
  /\ p_view' = IF property = "clip-path" /\ p_view = "revealing" THEN "hero" ELSE p_view
  /\ UNCHANGED <<p_graphKey, p_reduced, p_origin, p_route, p_timers, mq, focus, gvars, cvars>>
  /\ UNCHANGED <<notPage, h_closedBy>>

\* ============================================================== GraphNav
\* (web/src/components/graph/GraphNav.tsx: expansion variant lines 1-472,
\*  modal variant lines 474-1418)

\* The size effect, re-run for the dependencies (size, reduced) after its
\* cleanup cleared both timers: which timers are pending afterwards.
SizeEffectG(size, reduced) ==
  IF size.w > 0 /\ size.h > 0
  THEN [ready |-> TRUE, spin |-> ~reduced]
  ELSE [ready |-> FALSE, spin |-> FALSE]

\* The ResizeObserver callback: setSize, then the size effect runs again.
ResizeG(size) ==
  /\ p_route = "/"
  /\ size # g_size
  /\ g_size' = size
  /\ g_readyTimer' = SizeEffectG(size, g_reduced).ready
  /\ g_spinTimer' = SizeEffectG(size, g_reduced).spin
  /\ UNCHANGED <<g_variant, g_ready, g_spinKey, h_initialSpins, g_reduced, g_expandingNode,
                 g_expansionProgress, g_expansionOrigin, g_showContent,
                 g_isModalOpen, g_selectedNode>>
  /\ UNCHANGED <<mq, focus, pvars, cvars>>
  /\ UNCHANGED notPage
  /\ h_closedBy' = "none"

\* The media query changes: the listeners of Home and of GraphNav run
\* setReduced, and the size effect runs again.
MqChangeP ==
  /\ p_route = "/"
  /\ mq' = ~mq
  /\ p_reduced' = mq'
  /\ g_reduced' = mq'
  /\ g_readyTimer' = SizeEffectG(g_size, mq').ready
  /\ g_spinTimer' = SizeEffectG(g_size, mq').spin
  /\ UNCHANGED <<g_variant, g_size, g_ready, g_spinKey, h_initialSpins, g_expandingNode,
                 g_expansionProgress, g_expansionOrigin, g_showContent,
                 g_isModalOpen, g_selectedNode>>
  /\ UNCHANGED <<focus, p_view, p_graphKey, p_origin, p_route, p_timers, cvars>>
  /\ UNCHANGED notPage
  /\ h_closedBy' = "none"

\* readyTimer: setReady(true).
ReadyTimerG ==
  /\ g_readyTimer
  /\ g_readyTimer' = FALSE
  /\ g_ready' = TRUE
  /\ UNCHANGED <<g_variant, g_size, g_spinKey, h_initialSpins, g_reduced, g_spinTimer, g_expandingNode,
                 g_expansionProgress, g_expansionOrigin, g_showContent,
                 g_isModalOpen, g_selectedNode>>
  /\ UNCHANGED <<mq, focus, pvars, cvars>>
  /\ UNCHANGED notPage
  /\ h_closedBy' = "none"

\* spinTimer: setSpinKey((k) => k + 1), the initial spin.
InitialSpinG ==
  /\ g_spinTimer
  /\ g_spinKey < MaxSpinKey
  /\ g_spinTimer' = FALSE
  /\ g_spinKey' = g_spinKey + 1
  /\ h_initialSpins' = h_initialSpins + 1
  /\ UNCHANGED <<g_variant, g_size, g_ready, g_reduced, g_readyTimer, g_expandingNode,
                 g_expansionProgress, g_expansionOrigin, g_showContent,
                 g_isModalOpen, g_selectedNode>>
  /\ UNCHANGED <<mq, focus, pvars, cvars>>
  /\ UNCHANGED notPage
  /\ h_closedBy' = "none"

\* function closeContent() (expansion variant).
CloseContentG ==
  /\ g_showContent' = FALSE
  /\ g_expandingNode' = "null"
  /\ g_expansionProgress' = 0
  /\ UNCHANGED <<g_variant, g_size, g_ready, g_spinKey, h_initialSpins, g_reduced, g_readyTimer,
                 g_spinTimer, g_expansionOrigin, g_isModalOpen, g_selectedNode>>

\* function openModal(node) / closeModal() (modal variant).
OpenModalG(node) ==
  /\ g_selectedNode' = node
  /\ g_isModalOpen' = TRUE
  /\ UNCHANGED <<g_variant, g_size, g_ready, g_spinKey, h_initialSpins, g_reduced, g_readyTimer,
                 g_spinTimer, g_expandingNode, g_expansionProgress,
                 g_expansionOrigin, g_showContent>>

\* closeModal that forgets setSelectedNode(null).
CloseModalG_KeepsNode ==
  /\ g_isModalOpen' = FALSE
  /\ UNCHANGED <<g_variant, g_size, g_ready, g_spinKey, h_initialSpins, g_reduced, g_readyTimer,
                 g_spinTimer, g_expandingNode, g_expansionProgress,
                 g_expansionOrigin, g_showContent, g_selectedNode>>

CloseModalG ==
  /\ g_isModalOpen' = FALSE
  /\ g_selectedNode' = "null"
  /\ UNCHANGED <<g_variant, g_size, g_ready, g_spinKey, h_initialSpins, g_reduced, g_readyTimer,
                 g_spinTimer, g_expandingNode, g_expansionProgress,
                 g_expansionOrigin, g_showContent>>

\* The callbacks of GraphNav instances that have been scheduled and not run.
Pending == Len(c_spin) + Len(c_loops) + Len(c_show)

\* function startSphereExpansion(node, buttonPosition): origin is
\* buttonPosition || { x: cx, y: cy }; the first animate frame is requested.
StartSphereExpansionG(node, origin) ==
  /\ Pending < MaxPending
  /\ g_expandingNode' = node
  /\ g_expansionProgress' = 0
  /\ g_expansionOrigin' = origin
  /\ c_loops' = Append(c_loops, [owner |-> p_graphKey, node |-> node, elapsed |-> 0])
  /\ UNCHANGED <<g_variant, g_size, g_ready, g_spinKey, h_initialSpins, g_reduced, g_readyTimer,
                 g_spinTimer, g_showContent, g_isModalOpen, g_selectedNode>>
  /\ UNCHANGED <<c_spin, c_show>>

\* The home branch of activate once nothing is open: spin and notify the
\* parent after SPIN_MS, or notify it at once under reduced motion.
SpinThenSelectG ==
  IF ~g_reduced
  THEN /\ g_spinKey < MaxSpinKey
       /\ Pending < MaxPending
       /\ g_spinKey' = g_spinKey + 1
       /\ UNCHANGED h_initialSpins
       /\ c_spin' = Append(c_spin, [owner |-> p_graphKey, center |-> CenterOf(g_size)])
       /\ UNCHANGED <<g_variant, g_size, g_ready, g_reduced, g_readyTimer, g_spinTimer,
                      g_expandingNode, g_expansionProgress, g_expansionOrigin,
                      g_showContent, g_isModalOpen, g_selectedNode>>
       /\ UNCHANGED <<pvars, c_loops, c_show>>
  ELSE /\ HandleSelectP("home", CenterOf(g_size))
       /\ UNCHANGED cvars

\* activate without the `if (showContent) { closeContent(); return; }` of its
\* home branch.
ActivateE_NoToggle(node) ==
  /\ focus' = "body"
  /\ IF node = "home"
     THEN SpinThenSelectG
     ELSE IF ~g_reduced
          THEN StartSphereExpansionG(node, CenterOf(g_size)) /\ UNCHANGED pvars
          ELSE HandleSelectP(node, CenterOf(g_size)) /\ UNCHANGED cvars
  /\ h_closedBy' = IF node = "home" /\ g_showContent THEN "home" ELSE "none"
  /\ UNCHANGED <<mq, notPage>>

\* function activate(node) of the expansion variant: blur, then act.
ActivateE(node) ==
  /\ focus' = "body"
  /\ IF node = "home"
     THEN IF g_showContent
          THEN CloseContentG /\ UNCHANGED <<pvars, cvars>>
          ELSE SpinThenSelectG
     ELSE IF ~g_reduced
          THEN StartSphereExpansionG(node, CenterOf(g_size)) /\ UNCHANGED pvars
          ELSE HandleSelectP(node, CenterOf(g_size)) /\ UNCHANGED cvars
  /\ h_closedBy' = IF node = "home" /\ g_showContent THEN "home" ELSE "none"
  /\ UNCHANGED <<mq, notPage>>

\* function activate(node) of the modal variant: blur, then act.
ActivateM(node) ==
  /\ focus' = "body"
  /\ IF node = "home"
     THEN IF g_selectedNode # "null"
          THEN CloseModalG /\ UNCHANGED <<pvars, cvars>>
          ELSE SpinThenSelectG
     ELSE OpenModalG(node) /\ UNCHANGED <<pvars, cvars>>
  /\ h_closedBy' = IF node = "home" /\ g_selectedNode # "null" THEN "home" ELSE "none"
  /\ UNCHANGED <<mq, notPage>>

\* Whether an overlay lies over the node buttons, or the graph wrapper of the
\* page ignores the pointer: the content backdrop (z-40), the modal (fixed,
\* z-50), pointer-events-none in the views revealing and hero.
Covered ==
  \/ g_variant = "expansion" /\ g_showContent /\ g_expandingNode # "null"
  \/ g_variant = "modal" /\ g_isModalOpen /\ g_selectedNode # "null"
  \/ p_view # "graph"

\* The node buttons exist and are visible (the container is `invisible`
\* until ready).
Usable == p_route = "/" /\ g_ready

\* Where getBoundingClientRect finds a satellite button of the spinning
\* wheel: a point at the radius from the centre, taken at 3 o'clock.
ButtonPositions(size) ==
  LET c == CenterOf(size)
      r == RadiusOf(size)
  IN  {[x |-> c.x + r, y |-> c.y]}

\* Tab moves the keyboard focus to a node button.
TabG(node) ==
  /\ Usable
  /\ focus # node
  /\ focus' = node
  /\ UNCHANGED <<mq, pvars, gvars, cvars, notPage>>
  /\ h_closedBy' = "none"

\* onClick of the HOME button.
ClickHomeE ==
  /\ g_variant = "expansion"
  /\ Usable /\ ~Covered
  /\ ActivateE("home")

ClickHomeM ==
  /\ g_variant = "modal"
  /\ Usable /\ ~Covered
  /\ ActivateM("home")

\* onKeyDown (Enter or Space) of the focused HOME button.
KeyHomeE ==
  /\ g_variant = "expansion"
  /\ Usable /\ focus = "home"
  /\ ActivateE("home")

KeyHomeM ==
  /\ g_variant = "modal"
  /\ Usable /\ focus = "home"
  /\ ActivateM("home")

\* What onClick of a satellite does to the component, its callbacks and the
\* parent (expansion variant; the container rect exists once mounted).
ClickSatBodyE(node, buttonPosition) ==
  /\ StartSphereExpansionG(node, buttonPosition)
  /\ UNCHANGED <<mq, pvars, notPage>>
  /\ h_closedBy' = "none"

\* onClick of a satellite (expansion variant); the click focuses the button.
ClickSatE(node) ==
  /\ g_variant = "expansion"
  /\ Usable /\ ~Covered
  /\ \E buttonPosition \in ButtonPositions(g_size) : ClickSatBodyE(node, buttonPosition)
  /\ focus' = node

\* onKeyDown (Enter or Space) of the focused satellite (expansion variant).
KeySatE(node) ==
  /\ g_variant = "expansion"
  /\ Usable /\ focus = node
  /\ ActivateE(node)

\* onClick of a satellite (modal variant): openModal(node).
ClickSatM(node) ==
  /\ g_variant = "modal"
  /\ Usable /\ ~Covered
  /\ OpenModalG(node)
  /\ focus' = node
  /\ UNCHANGED <<mq, pvars, cvars, notPage>>
  /\ h_closedBy' = "none"

\* onKeyDown (Enter or Space) of the focused satellite (modal variant).
KeySatM(node) ==
  /\ g_variant = "modal"
  /\ Usable /\ focus = node
  /\ OpenModalG(node)
  /\ UNCHANGED <<mq, focus, pvars, cvars, notPage>>
  /\ h_closedBy' = "none"

\* onClick={closeContent} of the dimmed background and of the close button
\* (expansion variant), rendered while showContent && expandingNode.
CloseClickE ==
  /\ g_variant = "expansion"
  /\ Usable
  /\ g_showContent /\ g_expandingNode # "null"
  /\ CloseContentG
  /\ focus' = "body"
  /\ h_closedBy' = "click"
  /\ UNCHANGED <<mq, pvars, cvars, notPage>>

\* The modal is rendered while isModalOpen && selectedNode.
ModalShown == g_variant = "modal" /\ Usable /\ g_isModalOpen /\ g_selectedNode # "null"

\* onClick={closeModal} of the backdrop.
BackdropClickM ==
  /\ ModalShown
  /\ CloseModalG
  /\ focus' = "body"
  /\ h_closedBy' = "backdrop"
  /\ UNCHANGED <<mq, pvars, cvars, notPage>>

\* onClick={closeModal} of the close button in the modal header.
CloseButtonM ==
  /\ ModalShown
  /\ CloseModalG
  /\ focus' = "body"
  /\ h_closedBy' = "button"
  /\ UNCHANGED <<mq, pvars, cvars, notPage>>

\* An Escape keydown on the document: handleEscape is registered only while
\* isModalOpen, and tests isModalOpen again.
EscapeM ==
  /\ g_variant = "modal"
  /\ p_route = "/"
  /\ IF g_isModalOpen THEN CloseModalG ELSE UNCHANGED gvars
  /\ h_closedBy' = IF g_isModalOpen THEN "escape" ELSE h_closedBy
  /\ UNCHANGED <<mq, focus, pvars, cvars, notPage>>

\* The oldest SPIN_MS timer of activate runs: onSelect?.(node, { x: cx, y: cy }),
\* whether or not its GraphNav instance is still mounted. Remounting GraphNav
\* takes the focused button away.
SpinTimerG ==
  /\ c_spin # <<>>
  /\ c_spin' = Tail(c_spin)
  /\ HandleSelectP("home", Head(c_spin).center)
  /\ focus' = IF p_route = "/" THEN "body" ELSE focus
  /\ UNCHANGED <<mq, c_loops, c_show, notPage>>
  /\ h_closedBy' = "none"

\* Time passes: Date.now() - startTime grows for every running animate loop
\* (progress is Math.min(elapsed / duration, 1), so elapsed is kept up to the
\* duration).
TickG ==
  /\ \E i \in 1..Len(c_loops) : c_loops[i].elapsed < ExpansionTicks
  /\ c_loops' = [i \in 1..Len(c_loops) |->
                   [c_loops[i] EXCEPT !.elapsed = Min2(@ + 1, ExpansionTicks)]]
  /\ UNCHANGED <<mq, focus, pvars, gvars, c_spin, c_show, notPage>>
  /\ h_closedBy' = "none"

\* The sequence q without its i-th element.
RemoveAt(q, i) == SubSeq(q, 1, i - 1) \o SubSeq(q, i + 1, Len(q))

\* An animation frame of the i-th animate loop: setExpansionProgress(progress),
\* then the next frame or, at progress 1, the 200 ms timer. The state setter
\* does nothing on an instance that is no longer mounted.
AnimateG(i) ==
  /\ i \in 1..Len(c_loops)
  /\ LET loop == c_loops[i]
     IN  /\ g_expansionProgress' =
              IF Alive(loop.owner) THEN loop.elapsed ELSE g_expansionProgress
         /\ IF loop.elapsed < ExpansionTicks
            THEN UNCHANGED <<c_loops, c_show>>
            ELSE /\ c_loops' = RemoveAt(c_loops, i)
                 /\ c_show' = Append(c_show, [owner |-> loop.owner])
  /\ UNCHANGED <<g_variant, g_size, g_ready, g_spinKey, h_initialSpins, g_reduced, g_readyTimer,
                 g_spinTimer, g_expandingNode, g_expansionOrigin, g_showContent,
                 g_isModalOpen, g_selectedNode>>
  /\ UNCHANGED <<mq, focus, pvars, c_spin, notPage>>
  /\ h_closedBy' = "none"

\* The oldest 200 ms timer of animate runs: setShowContent(true).
ShowTimerG ==
  /\ c_show # <<>>
  /\ c_show' = Tail(c_show)
  /\ g_showContent' = IF Alive(Head(c_show).owner) THEN TRUE ELSE g_showContent
  /\ UNCHANGED <<g_variant, g_size, g_ready, g_spinKey, h_initialSpins, g_reduced, g_readyTimer,
                 g_spinTimer, g_expandingNode, g_expansionProgress, g_expansionOrigin,
                 g_isModalOpen, g_selectedNode>>
  /\ UNCHANGED <<mq, focus, pvars, c_spin, c_loops, notPage>>
  /\ h_closedBy' = "none"

\* ================================================================ layout
\* (calculatePositions of unnamed/part_000 and unnamed/part_001, and the
\* positions of GraphNav.tsx)
\*
\* Radii are hundredths of a pixel; coordinates are thousandths of that,
\* the resolution of the cosine and sine values.

Milli == 10 * Scale

\* Math.cos of an angle given in degrees, in thousandths; the angles the
\* layouts use are multiples of 18 degrees.
CosMilli(deg) ==
  LET d == deg % 360
      a == IF d > 180 THEN 360 - d ELSE d
  IN  CASE a = 0 -> 1000
        [] a = 18 -> 951
        [] a = 36 -> 809
        [] a = 54 -> 588
        [] a = 72 -> 309
        [] a = 90 -> 0
        [] a = 108 -> -309
        [] a = 126 -> -588
        [] a = 144 -> -809
        [] a = 162 -> -951
        [] a = 180 -> -1000

\* Math.sin of an angle given in degrees, in thousandths.
SinMilli(deg) == CosMilli(deg - 90)

\* The components that lay their satellites out.
CalcParts == {"part_000", "part_001"}
LayoutParts == CalcParts \cup {"GraphNav.tsx"}

\* The widths and heights (px) a measurement is explored to report: the
\* hundreds up to MaxDim * 100 and both sides of the narrow threshold.
Dims == {100 * i : i \in 1..MaxDim} \cup {379, 380}

\* The clamp range of the radius, the share of the smaller dimension it is
\* taken from (in hundredths), and the narrow-branch constants.
RadiusMin(part) == IF part = "part_000" THEN 140 ELSE 180
RadiusMax(part) == IF part = "part_000" THEN 320 ELSE 420
RadiusShare(part) == IF part = "part_000" THEN 33 ELSE 43
OuterExtra(part) == IF part = "part_000" THEN 40 ELSE 50
OuterShare(part) == IF part = "part_000" THEN 40 ELSE 50
InnerLess(part) == IF part = "part_000" THEN 20 ELSE 30
InnerFloor(part) == IF part = "part_000" THEN 100 ELSE 130

\* radius = Math.max(RADIUS_MIN, Math.min(RADIUS_MAX, minDimension * share))
ClampedRadius(part, width, height) ==
  LET minDimension == Min2(width, height)
      baseRadius == (minDimension * RadiusShare(part) * Scale) \div 100
  IN  Max2(RadiusMin(part) * Scale, Min2(RadiusMax(part) * Scale, baseRadius))

\* outerRadius = Math.min(radius + extra, minDimension * share)
OuterRadius(part, width, height) ==
  Min2(ClampedRadius(part, width, height) + OuterExtra(part) * Scale,
       (Min2(width, height) * OuterShare(part) * Scale) \div 100)

\* innerRadius = Math.max(radius - less, floor)
InnerRadius(part, width, height) ==
  Max2(ClampedRadius(part, width, height) - InnerLess(part) * Scale,
       InnerFloor(part) * Scale)

\* The distance from the center at which satellite i (1..5) is placed.
PlacementRadius(part, width, height, i) ==
  IF width < 380
  THEN IF i <= 3 THEN OuterRadius(part, width, height)
                 ELSE InnerRadius(part, width, height)
  ELSE ClampedRadius(part, width, height)

\* Narrow branch: angle = ((i - 1) * Math.PI) / 2 for i = 1..3 and
\* ((i - 3) * Math.PI) / 2 + Math.PI for i = 4..5, in degrees.
NarrowAngle(i) ==
  IF i <= 3 THEN ((i - 1) * 180) \div 2 ELSE ((i - 3) * 180) \div 2 + 180

\* A standard angle that forgets the factor 2: index * Math.PI / length.
StandardAngle_HalfTurn(index, length) == (index * 180) \div length

\* Standard branch: angle = (index * 2 * Math.PI) / outerNodes.length, in degrees.
StandardAngle(index, length) == (index * 2 * 180) \div length

\* { x: centerX + Math.cos(angle) * r, y: centerY + Math.sin(angle) * r }
PolarL(centerX, centerY, angle, r) ==
  [x |-> centerX + CosMilli(angle) * r, y |-> centerY + SinMilli(angle) * r]

\* A calculatePositions whose second arc stops at i = 4.
calculatePositions_ShortArc(part, width, height) ==
  LET centerX == (width * Scale * Milli) \div 2
      centerY == (height * Scale * Milli) \div 2
      outerNodes == SubSeq(NODES, 2, Len(NODES))
      sat(i) == PolarL(centerX, centerY,
                       IF width < 380 THEN NarrowAngle(i)
                                      ELSE StandardAngle(i - 1, Len(outerNodes)),
                       PlacementRadius(part, width, height, i))
  IN  <<[x |-> centerX, y |-> centerY]>> \o
        (IF width < 380
         THEN [i \in 1..4 |-> sat(i)]
         ELSE [i \in 1..Len(outerNodes) |-> sat(i)])

\* calculatePositions(width, height): the home position, then the five
\* satellites, on two arcs when width < 380 and on one circle otherwise.
calculatePositions(part, width, height) ==
  LET centerX == (width * Scale * Milli) \div 2
      centerY == (height * Scale * Milli) \div 2
      outerNodes == SubSeq(NODES, 2, Len(NODES))
      sat(i) == PolarL(centerX, centerY,
                       IF width < 380 THEN NarrowAngle(i)
                                      ELSE StandardAngle(i - 1, Len(outerNodes)),
                       PlacementRadius(part, width, height, i))
  IN  <<[x |-> centerX, y |-> centerY]>> \o
        (IF width < 380
         THEN [i \in 1..5 |-> sat(i)]
         ELSE [i \in 1..Len(outerNodes) |-> sat(i)])

\* GraphNav.tsx: angle = (i / n) * Math.PI * 2 - Math.PI / 2, in degrees.
AngleG(i, n) == (i * 2 * 180) \div n - 90

\* GraphNav.tsx positions: one item { angle, x, y } per satellite, around
\* (cx, cy) at the radius of the size.
positionsG(size) ==
  LET c == CenterOf(size)
      n == Len(NODES) - 1
  IN  [k \in 1..n |->
         [angle |-> AngleG(k - 1, n),
          x |-> c.x * Milli + RadiusOf(size) * CosMilli(AngleG(k - 1, n)),
          y |-> c.y * Milli + RadiusOf(size) * SinMilli(AngleG(k - 1, n))]]

\* An updateSize that computes the positions from the size stored before.
UpdateSizeL_Stale(width, height) ==
  /\ [w |-> width, h |-> height] # l_size
  /\ l_size' = [w |-> width, h |-> height]
  /\ l_positions' = IF l_part \in CalcParts
                    THEN calculatePositions(l_part, l_size.w, l_size.h)
                    ELSE positionsG(l_size)
  /\ UNCHANGED l_part
  /\ UNCHANGED notLayout

\* The container is measured: updateSize of part_000 stores the size and
\* calculatePositions of it; part_001 and GraphNav.tsx store the size and
\* derive the positions from it in the next render.
UpdateSizeL(width, height) ==
  /\ [w |-> width, h |-> height] # l_size
  /\ l_size' = [w |-> width, h |-> height]
  /\ l_positions' = IF l_part \in CalcParts
                    THEN calculatePositions(l_part, width, height)
                    ELSE positionsG(l_size')
  /\ UNCHANGED l_part
  /\ UNCHANGED notLayout

\* ============================================================== GraphNav
\* (unnamed/part_001: the variant that measures its nodes to draw the edges)

\* The value null of positions (calculatePositions never returns []).
NullPositions == <<>>

\* A positions useMemo without the zero-size guard.
positionsE_NoGuard(size) == calculatePositions("part_001", size.w, size.h)

\* positions = useMemo(...): null while a dimension is 0, else
\* calculatePositions(containerSize.width, containerSize.height).
positionsE(size) ==
  IF size.w = 0 \/ size.h = 0
  THEN NullPositions
  ELSE calculatePositions("part_001", size.w, size.h)

\* positions is non-null, so the node buttons are rendered.
NodesRenderedE == positionsE(e_containerSize) # NullPositions

\* The container sizes a measurement of this variant is explored to report:
\* also sizes of which only one dimension is 0.
SizesE == Sizes \cup {[w |-> SizeOf(1).w, h |-> 0], [w |-> 0, h |-> SizeOf(1).h]}

\* The values currentView takes: the views of a Home page, or not supplied.
CurrentViews == {"graph", "zooming", "hero", "undefined"}

\* The keys explored for onKeyDown.
Keys == {"Enter", " ", "a"}

\* What the handlers of a node button read and write.
CompE ==
  [focus |-> focus, hoveredId |-> e_hoveredId,
   edgesDisabled |-> e_edgesDisabled, calls |-> e_calls]

\* document.activeElement.blur(): a focused node button loses the focus and
\* its onBlur runs, setHoveredId((prev) => (prev === node.id ? null : prev)).
BlurE(st) ==
  [st EXCEPT !.focus = "body",
             !.hoveredId = IF st.focus \in NodeIds /\ @ = st.focus THEN "null" ELSE @]

\* The button of `node` takes the focus: onBlur of the button that had it,
\* then onFocus, setHoveredId(node.id).
FocusE(st, node) ==
  IF st.focus = node THEN st ELSE [st EXCEPT !.focus = node, !.hoveredId = node]

\* const handleNodeClick = (node) => { ... }
handleNodeClick(st, node) ==
  IF ~e_hasOnSelect
  THEN st
  ELSE [BlurE(st) EXCEPT !.edgesDisabled = TRUE, !.calls = Append(@, node)]

\* const handleKeyDown = (event, node) => { ... }
handleKeyDown(st, key, node) ==
  IF key \in {"Enter", " "}
  THEN handleNodeClick([BlurE(st) EXCEPT !.edgesDisabled = TRUE], node)
  ELSE st

\* The component takes the state a handler returned.
CommitE(st) ==
  /\ focus' = st.focus
  /\ e_hoveredId' = st.hoveredId
  /\ e_edgesDisabled' = st.edgesDisabled
  /\ e_calls' = st.calls

\* The ResizeObserver callback: setContainerSize. When positions becomes null
\* the buttons are removed, and with them the focus and the pointer target.
\* positions is a new value, so the edge effect runs again: its cleanup
\* clears the pending timeout, and it sets a new one unless positions is null.
ResizeE(size) ==
  /\ size # e_containerSize
  /\ e_containerSize' = size
  /\ focus' = IF size.w = 0 \/ size.h = 0 THEN "body" ELSE focus
  /\ e_pointer' = IF size.w = 0 \/ size.h = 0 THEN "none" ELSE e_pointer
  /\ e_edgeTimer' = (positionsE(size) # NullPositions)
  /\ UNCHANGED <<e_hasOnSelect, e_currentView, e_edgesDisabled, e_hoveredId, e_calls>>
  /\ UNCHANGED <<e_rafs, e_isAnimating, e_edges, notEdge>>

\* The parent renders with another currentView: the effect on [currentView]
\* runs, if (currentView === "graph") setEdgesDisabled(false).
SetCurrentViewE(view) ==
  /\ view # e_currentView
  /\ e_currentView' = view
  /\ e_edgesDisabled' = IF view = "graph" THEN FALSE ELSE e_edgesDisabled
  /\ UNCHANGED <<focus, e_hasOnSelect, e_containerSize, e_hoveredId, e_pointer, e_calls>>
  /\ UNCHANGED <<eSched, notEdge>>

\* onMouseEnter of a node button (after onMouseLeave of the button left).
MouseEnterE(node) ==
  /\ NodesRenderedE
  /\ e_pointer # node
  /\ e_pointer' = node
  /\ e_hoveredId' = node
  /\ UNCHANGED <<focus, e_hasOnSelect, e_currentView, e_containerSize, e_edgesDisabled,
                 e_calls>>
  /\ UNCHANGED <<eSched, notEdge>>

\* onMouseLeave of the node button the pointer was over.
MouseLeaveE ==
  /\ e_pointer # "none"
  /\ e_pointer' = "none"
  /\ e_hoveredId' = IF e_hoveredId = e_pointer THEN "null" ELSE e_hoveredId
  /\ UNCHANGED <<focus, e_hasOnSelect, e_currentView, e_containerSize, e_edgesDisabled,
                 e_calls>>
  /\ UNCHANGED <<eSched, notEdge>>

\* Tab moves the keyboard focus to a node button.
TabE(node) ==
  /\ NodesRenderedE
  /\ focus # node
  /\ CommitE(FocusE(CompE, node))
  /\ UNCHANGED <<e_hasOnSelect, e_currentView, e_containerSize, e_pointer>>
  /\ UNCHANGED <<eSched, notEdge>>

\* A pointer click on a node button: the button takes the focus, then
\* onClick={() => handleNodeClick(node)}.
ClickE(node) ==
  /\ NodesRenderedE
  /\ e_pointer = node
  /\ e_hasOnSelect => Len(e_calls) < MaxCalls
  /\ CommitE(handleNodeClick(FocusE(CompE, node), node))
  /\ UNCHANGED <<e_hasOnSelect, e_currentView, e_containerSize, e_pointer>>
  /\ UNCHANGED <<eSched, notEdge>>

\* A keydown on the focused node button: onKeyDown={(e) => handleKeyDown(e, node)}.
KeyDownE(key, node) ==
  /\ NodesRenderedE
  /\ focus = node
  /\ e_hasOnSelect => Len(e_calls) < MaxCalls
  /\ CommitE(handleKeyDown(CompE, key, node))
  /\ UNCHANGED <<e_hasOnSelect, e_currentView, e_containerSize, e_pointer>>
  /\ UNCHANGED <<eSched, notEdge>>

\* computeEdges, called from a timeout or an animation frame: it was
\* scheduled by a render whose positions were non-null, so it measures the
\* node buttons; without a home button it sets edges to [].
computeEdges == IF NodesRenderedE THEN "drawn" ELSE "none"

\* The timeout of the edge effect runs computeEdges.
EdgeTimerE ==
  /\ e_edgeTimer
  /\ e_edgeTimer' = FALSE
  /\ e_edges' = computeEdges
  /\ UNCHANGED <<focus, e_hasOnSelect, e_currentView, e_containerSize, e_edgesDisabled,
                 e_hoveredId, e_pointer, e_calls, e_rafs, e_isAnimating>>
  /\ UNCHANGED notEdge

\* A frame of the initial animation: setAnimationTime(elapsed) and, when
\* 3000 ms have elapsed, setIsAnimating(false). The effect on
\* [animationTime] requests a frame for computeEdges while positions are
\* there and the animation is running.
AnimateE(finished) ==
  /\ e_isAnimating
  /\ e_isAnimating' = ~finished
  /\ e_rafs' = IF NodesRenderedE /\ ~finished THEN Min2(e_rafs + 1, MaxRaf) ELSE e_rafs
  /\ NodesRenderedE /\ ~finished => e_rafs < MaxRaf
  /\ UNCHANGED <<focus, e_hasOnSelect, e_currentView, e_containerSize, e_edgesDisabled,
                 e_hoveredId, e_pointer, e_calls, e_edgeTimer, e_edges>>
  /\ UNCHANGED notEdge

\* onTransitionEnd of a node button: requestAnimationFrame(computeEdges).
TransitionEndE ==
  /\ NodesRenderedE
  /\ e_rafs < MaxRaf
  /\ e_rafs' = e_rafs + 1
  /\ UNCHANGED <<focus, e_hasOnSelect, e_currentView, e_containerSize, e_edgesDisabled,
                 e_hoveredId, e_pointer, e_calls, e_edgeTimer, e_isAnimating, e_edges>>
  /\ UNCHANGED notEdge

\* A requested animation frame runs computeEdges.
RafComputeEdgesE ==
  /\ e_rafs > 0
  /\ e_rafs' = e_rafs - 1
  /\ e_edges' = computeEdges
  /\ UNCHANGED <<focus, e_hasOnSelect, e_currentView, e_containerSize, e_edgesDisabled,
                 e_hoveredId, e_pointer, e_calls, e_edgeTimer, e_isAnimating>>
  /\ UNCHANGED notEdge

\* ========================================================= edge trimming
\* (computeTrimmedEdge of unnamed/part_001 and the edges of GraphNav.tsx)
\*
\* Arguments are whole pixels; the unit vector and the returned coordinates
\* are thousandths. A point carries `finite`, which is FALSE when a
\* coordinate is NaN (0 / 0, the one division by zero these functions can
\* make); its x and y are then meaningless and set to 0.

\* Math.sqrt / Math.hypot of a perfect square.
SqrtR(n) == CHOOSE r \in 0..n : r * r <= n /\ n < (r + 1) * (r + 1)

\* The directions from the center explored for the node: none, along an
\* axis, and the 3-4-5 directions, whose length is a whole number.
Dirs == {<<0, 0>>, <<1, 0>>, <<0, 1>>, <<-1, 0>>, <<0, -1>>,
         <<3, 4>>, <<-4, 3>>, <<-3, -4>>, <<4, -3>>}

\* The offsets of the node from the center that are explored (px).
Offsets == {[dx |-> d[1] * 10 * k, dy |-> d[2] * 10 * k] : d \in Dirs, k \in 1..MaxStep}

\* The centers and the radii and paddings that are explored (px).
Centers == {[x |-> 0, y |-> 0], [x |-> 400, y |-> 300]}
CenterRadii == {0, 20, HOME_DIAM \div 2}
NodeRadii == {0, 20, NODE_DIAM \div 2}
Paddings == {0, 2}

\* center + u * d, or center - u * d for a negative d, NaN if u is NaN.
AlongR(x, y, length, dx, dy, d) ==
  IF length = 0
  THEN [x |-> 0, y |-> 0, finite |-> FALSE]
  ELSE [x |-> x * Milli + ((dx * Milli) \div length) * d,
        y |-> y * Milli + ((dy * Milli) \div length) * d,
        finite |-> TRUE]

\* A computeTrimmedEdge without the guard against zero-length vectors.
computeTrimmedEdge_NoGuard(centerX, centerY, nodeX, nodeY, centerRadius, nodeRadius, padding) ==
  LET dx == nodeX - centerX
      dy == nodeY - centerY
      length == SqrtR(dx * dx + dy * dy)
  IN  [start |-> AlongR(centerX, centerY, length, dx, dy, centerRadius + padding),
       end |-> AlongR(nodeX, nodeY, length, dx, dy, -(nodeRadius + padding))]

\* computeTrimmedEdge(centerX, centerY, nodeX, nodeY, centerRadius, nodeRadius, padding)
computeTrimmedEdge(centerX, centerY, nodeX, nodeY, centerRadius, nodeRadius, padding) ==
  LET dx == nodeX - centerX
      dy == nodeY - centerY
      length == SqrtR(dx * dx + dy * dy)
  IN  IF length = 0
      THEN [start |-> [x |-> centerX * Milli, y |-> centerY * Milli, finite |-> TRUE],
            end |-> [x |-> nodeX * Milli, y |-> nodeY * Milli, finite |-> TRUE]]
      ELSE [start |-> AlongR(centerX, centerY, length, dx, dy, centerRadius + padding),
            end |-> AlongR(nodeX, nodeY, length, dx, dy, -(nodeRadius + padding))]

\* Math.hypot(dx, dy) || 1
LengthOr1(dx, dy) ==
  LET length == SqrtR(dx * dx + dy * dy) IN IF length = 0 THEN 1 ELSE length

\* One edge of GraphNav.tsx: { x1, y1, x2, y2 } for the position (x, y)
\* around (cx, cy), as its start (x1, y1) and end (x2, y2).
edgeG(cx, cy, x, y) ==
  LET dx == x - cx
      dy == y - cy
      length == LengthOr1(dx, dy)
  IN  [start |-> AlongR(cx, cy, length, dx, dy, HOME_DIAM \div 2 + 4),
       end |-> AlongR(x, y, length, dx, dy, -(NODE_DIAM \div 2 + 4))]

\* computeEdges of part_001 calls computeTrimmedEdge for a node. (The
\* function keeps no state: one application per behaviour is explored.)
TrimR(center, off, centerRadius, nodeRadius, padding) ==
  /\ r_fn = "none"
  /\ r_fn' = "computeTrimmedEdge"
  /\ r_args' = [centerX |-> center.x, centerY |-> center.y,
                nodeX |-> center.x + off.dx, nodeY |-> center.y + off.dy,
                centerRadius |-> centerRadius, nodeRadius |-> nodeRadius,
                padding |-> padding]
  /\ r_edge' = computeTrimmedEdge(center.x, center.y, center.x + off.dx, center.y + off.dy,
                                  centerRadius, nodeRadius, padding)
  /\ UNCHANGED notTrim

\* The edges useMemo of GraphNav.tsx computes the edge of a position.
EdgeR(center, off) ==
  /\ r_fn = "none"
  /\ r_fn' = "edges"
  /\ r_args' = [centerX |-> center.x, centerY |-> center.y,
                nodeX |-> center.x + off.dx, nodeY |-> center.y + off.dy,
                centerRadius |-> HOME_DIAM \div 2, nodeRadius |-> NODE_DIAM \div 2,
                padding |-> 4]
  /\ r_edge' = edgeG(center.x, center.y, center.x + off.dx, center.y + off.dy)
  /\ UNCHANGED notTrim

\* ============================================================ Typewriter
\* (web/src/components/ui/Typewriter.tsx)

\* The characters the text props are made of.
Alphabet == {"a", "b"}

\* The values explored for the text prop: every string up to MaxText characters.
Texts == UNION {[1..n -> Alphabet] : n \in 0..MaxText}

\* The values explored for speedMs and startDelayMs: the defaults and another.
SpeedValues == {60, 30}
DelayValues == {200, 0}

\* String.prototype.slice(start, end) for start, end >= 0.
Slice(text, start, end) ==
  LET from == Min2(Max2(start, 0), Len(text))
      to == Min2(Max2(end, 0), Len(text))
  IN  SubSeq(text, from + 1, to)

\* p is a prefix of text.
IsPrefix(p, text) == Len(p) <= Len(text) /\ SubSeq(text, 1, Len(p)) = p

\* window.clearTimeout(startTimer) of the given run.
ClearTimeoutT(timers, run) == {rec \in timers : ~(rec.run = run /\ rec.kind = "start")}

\* window.clearInterval(interval) of the given run; `interval` is undefined,
\* and nothing is cleared, until the start timer has run.
ClearIntervalT(timers, run) == {rec \in timers : ~(rec.run = run /\ rec.kind = "interval")}

\* A cleanup that forgets window.clearInterval(interval).
CleanupT_KeepsInterval(timers, run) == ClearTimeoutT(timers, run)

\* The cleanup the typing effect returns.
CleanupT(timers, run) == ClearIntervalT(ClearTimeoutT(timers, run), run)

\* A typing effect without `if (reduced) { setDisplay(text); return; }`.
TypeEffectT_NoEarlyReturn(reduced, text, run) ==
  [display |-> <<>>,
   timers |-> {[run |-> run, kind |-> "start", i |-> 0, text |-> text]}]

\* The body of the typing effect, run with the values of the committed
\* render: what it sets display to and the timers it schedules.
TypeEffectT(reduced, text, run) ==
  IF reduced
  THEN [display |-> text, timers |-> {}]
  ELSE [display |-> <<>>,
        timers |-> {[run |-> run, kind |-> "start", i |-> 0, text |-> text]}]

\* The component is mounted: useState("") and useState(false); its effects
\* run after the commit. (A render first runs the passive effects that are
\* still pending, so none is pending here.)
MountT(text, speedMs, startDelayMs) ==
  /\ ~t_mounted /\ ~t_dirty
  /\ t_runs + 2 <= MaxRuns
  /\ t_mounted' = TRUE
  /\ t_text' = text
  /\ t_speedMs' = speedMs
  /\ t_startDelayMs' = startDelayMs
  /\ t_display' = <<>>
  /\ t_reduced' = FALSE
  /\ t_dirty' = TRUE
  /\ UNCHANGED <<t_listening, t_run, t_runs, t_timers>>
  /\ UNCHANGED <<mq, notType>>

\* The component is unmounted; its cleanups run after the commit.
UnmountT ==
  /\ t_mounted /\ ~t_dirty
  /\ t_mounted' = FALSE
  /\ t_dirty' = TRUE
  /\ UNCHANGED <<t_text, t_speedMs, t_startDelayMs, t_display, t_reduced, t_listening,
                 t_run, t_runs, t_timers>>
  /\ UNCHANGED <<mq, notType>>

\* The parent renders Typewriter with other props: a dependency of the
\* typing effect changed.
SetPropsT(text, speedMs, startDelayMs) ==
  /\ t_mounted /\ ~t_dirty
  /\ t_runs < MaxRuns
  /\ <<text, speedMs, startDelayMs>> # <<t_text, t_speedMs, t_startDelayMs>>
  /\ t_text' = text
  /\ t_speedMs' = speedMs
  /\ t_startDelayMs' = startDelayMs
  /\ t_dirty' = TRUE
  /\ UNCHANGED <<t_mounted, t_display, t_reduced, t_listening, t_run, t_runs, t_timers>>
  /\ UNCHANGED <<mq, notType>>

\* The media query changes; a registered listener runs setReduced(mq.matches).
MqChangeT ==
  /\ ~t_dirty
  /\ t_listening => t_runs < MaxRuns
  /\ mq' = ~mq
  /\ t_reduced' = IF t_listening THEN mq' ELSE t_reduced
  /\ t_dirty' = t_listening
  /\ UNCHANGED <<t_mounted, t_text, t_speedMs, t_startDelayMs, t_display, t_listening,
                 t_run, t_runs, t_timers>>
  /\ UNCHANGED notType

\* The passive effects of the committed render run: the cleanup of the last
\* run of the typing effect, then (mounted) the typing effect with the
\* values of that render and, after mounting, the media-query effect, whose
\* update() may change reduced and so cause another render.
FlushEffectsT ==
  /\ t_dirty
  /\ LET cleaned == IF t_run # 0 THEN CleanupT(t_timers, t_run) ELSE t_timers
         eff == TypeEffectT(t_reduced, t_text, t_runs + 1)
     IN  IF ~t_mounted
         THEN /\ t_timers' = cleaned
              /\ t_run' = 0
              /\ t_listening' = FALSE
              /\ t_dirty' = FALSE
              /\ UNCHANGED <<t_display, t_reduced, t_runs>>
         ELSE /\ t_timers' = cleaned \cup eff.timers
              /\ t_display' = eff.display
              /\ t_run' = t_runs + 1
              /\ t_runs' = t_runs + 1
              /\ t_listening' = TRUE
              /\ t_reduced' = IF t_listening THEN t_reduced ELSE mq
              /\ t_dirty' = (t_reduced' # t_reduced)
  /\ UNCHANGED <<t_mounted, t_text, t_speedMs, t_startDelayMs>>
  /\ UNCHANGED <<mq, notType>>

\* A start timer runs: interval = window.setInterval(...).
StartTimerT(rec) ==
  /\ rec \in t_timers /\ rec.kind = "start"
  /\ t_timers' = (t_timers \ {rec}) \cup {[rec EXCEPT !.kind = "interval"]}
  /\ UNCHANGED <<t_mounted, t_text, t_speedMs, t_startDelayMs, t_display, t_reduced,
                 t_listening, t_dirty, t_run, t_runs>>
  /\ UNCHANGED <<mq, notType>>

\* An interval tick that never clears the interval.
TickT_NoClear(rec) ==
  /\ rec \in t_timers /\ rec.kind = "interval"
  /\ t_timers' = (t_timers \ {rec}) \cup {[rec EXCEPT !.i = rec.i + 1]}
  /\ t_display' = IF t_mounted THEN Slice(rec.text, 0, rec.i + 1) ELSE t_display
  /\ UNCHANGED <<t_mounted, t_text, t_speedMs, t_startDelayMs, t_reduced,
                 t_listening, t_dirty, t_run, t_runs>>
  /\ UNCHANGED <<mq, notType>>

\* An interval tick: i++; setDisplay(text.slice(0, i)); the interval is
\* cleared once i >= text.length. setDisplay does nothing once unmounted.
TickT(rec) ==
  /\ rec \in t_timers /\ rec.kind = "interval"
  /\ LET ticked == (t_timers \ {rec}) \cup {[rec EXCEPT !.i = rec.i + 1]}
     IN  t_timers' = IF rec.i + 1 >= Len(rec.text)
                     THEN ClearIntervalT(ticked, rec.run)
                     ELSE ticked
  /\ t_display' = IF t_mounted THEN Slice(rec.text, 0, rec.i + 1) ELSE t_display
  /\ UNCHANGED <<t_mounted, t_text, t_speedMs, t_startDelayMs, t_reduced,
                 t_listening, t_dirty, t_run, t_runs>>
  /\ UNCHANGED <<mq, notType>>

\* ------------------------------------------------------------- SpecZoom
\* Both Home pages and their GraphNav right after mounting, the media-query
\* effects having run.
InitHome ==
  /\ mq \in BOOLEAN
  /\ focus = "body"
  /\ z_view = "graph"
  /\ z_origin = [x |-> 0, y |-> 0]
  /\ z_reduced = mq
  /\ z_timers = 0
  /\ z_raf = FALSE
  /\ s_size = SizeOf(0)
  /\ s_spinKey = 0
  /\ s_reduced = mq
  /\ s_initTimer = FALSE
  /\ s_timers = <<>>
  /\ p_view = "graph"
  /\ p_graphKey = 0
  /\ p_reduced = mq
  /\ p_origin = [x |-> 0, y |-> 0]
  /\ p_route = "/"
  /\ p_timers = <<>>
  /\ g_variant \in {"expansion", "modal"}
  /\ g_size = SizeOf(0)
  /\ g_ready = FALSE
  /\ g_spinKey = 0
  /\ h_initialSpins = 0
  /\ g_reduced = mq
  /\ g_readyTimer = FALSE
  /\ g_spinTimer = FALSE
  /\ g_expandingNode = "null"
  /\ g_expansionProgress = 0
  /\ g_expansionOrigin = [x |-> 0, y |-> 0]
  /\ g_showContent = FALSE
  /\ g_isModalOpen = FALSE
  /\ g_selectedNode = "null"
  /\ c_spin = <<>>
  /\ c_loops = <<>>
  /\ c_show = <<>>
  /\ h_closedBy = "none"

\* GraphNav of unnamed/part_001 right after mounting with the given props
\* (the currentView effect has run: edgesDisabled is false either way).
InitE(hasOnSelect, currentView) ==
  /\ e_hasOnSelect = hasOnSelect
  /\ e_currentView = currentView
  /\ e_containerSize = SizeOf(0)
  /\ e_edgesDisabled = FALSE
  /\ e_hoveredId = "null"
  /\ e_pointer = "none"
  /\ e_calls = <<>>
  /\ e_edgeTimer = FALSE
  /\ e_rafs = 0
  /\ e_isAnimating = TRUE
  /\ e_edges = "none"

\* Typewriter not mounted yet.
InitT ==
  /\ t_mounted = FALSE
  /\ t_text = <<>>
  /\ t_speedMs = 60
  /\ t_startDelayMs = 200
  /\ t_display = <<>>
  /\ t_reduced = FALSE
  /\ t_listening = FALSE
  /\ t_dirty = FALSE
  /\ t_run = 0
  /\ t_runs = 0
  /\ t_timers = {}

\* No size has been measured yet: useState({ width: 0, height: 0 }) and no
\* positions.
InitL(part) ==
  /\ l_part = part
  /\ l_size = [w |-> 0, h |-> 0]
  /\ l_positions = <<>>

\* No edge has been computed yet.
InitR ==
  /\ r_fn = "none"
  /\ r_args = [centerX |-> 0, centerY |-> 0, nodeX |-> 0, nodeY |-> 0,
               centerRadius |-> 0, nodeRadius |-> 0, padding |-> 0]
  /\ r_edge = [start |-> [x |-> 0, y |-> 0, finite |-> TRUE],
               end |-> [x |-> 0, y |-> 0, finite |-> TRUE]]

InitAll == InitHome /\ InitE(TRUE, "graph") /\ InitT /\ InitL("part_000") /\ InitR

InitZoom == InitAll /\ g_variant = "expansion"

NextZoom ==
  \/ \E size \in Sizes : ResizeS(size)
  \/ MqChangeZ
  \/ InitTimerS
  \/ \E node \in UserNodes : ClickS(node)
  \/ \E node \in UserNodes : TabS(node)
  \/ \E node \in UserNodes : KeyS(node)
  \/ SpinTimerS
  \/ ZoomTimerZ
  \/ RafFocusZ

SpecZoom == InitZoom /\ [][NextZoom]_vars

\* Timers and animation frames that are pending do run.
FairZoom ==
  /\ SpecZoom
  /\ WF_vars(SpinTimerS)
  /\ WF_vars(ZoomTimerZ)
  /\ WF_vars(RafFocusZ)
  /\ WF_vars(InitTimerS)

\* Every user event gets its turn as well: a user who keeps trying everything.
FairZoomUser ==
  /\ FairZoom
  /\ \A node \in UserNodes : WF_vars(ClickS(node)) /\ WF_vars(KeyS(node))
  /\ \A node \in UserNodes : WF_vars(TabS(node))
  /\ WF_vars(MqChangeZ)
  /\ \A size \in Sizes : WF_vars(ResizeS(size))

\* ------------------------------------------------------------- SpecPage
InitPage == InitAll

\* What happens whichever variant of GraphNav.tsx is mounted, and what the
\* modal variant adds.
NextPageM ==
  \/ \E size \in Sizes : ResizeG(size)
  \/ MqChangeP
  \/ ReadyTimerG
  \/ InitialSpinG
  \/ \E property \in {"clip-path", "opacity"} : OnTransitionEndP(property)
  \/ \E node \in UserNodes : TabG(node)
  \/ ClickHomeM
  \/ KeyHomeM
  \/ \E node \in SatIds : ClickSatM(node)
  \/ \E node \in SatIds : KeySatM(node)
  \/ BackdropClickM
  \/ CloseButtonM
  \/ EscapeM
  \/ SpinTimerG

\* What the expansion variant adds.
NextPage ==
  \/ NextPageM
  \/ ClickHomeE
  \/ KeyHomeE
  \/ \E node \in SatIds : ClickSatE(node)
  \/ \E node \in SatIds : KeySatE(node)
  \/ CloseClickE
  \/ TickG
  \/ \E i \in 1..MaxPending : AnimateG(i)
  \/ ShowTimerG

\* The Home page with the modal variant mounted.
InitPageM == InitPage /\ g_variant = "modal"

SpecPageM == InitPageM /\ [][NextPageM]_vars

SpecPage == InitPage /\ [][NextPage]_vars

\* Timers and animation frames that are pending do run, and time passes.
FairPage ==
  /\ SpecPage
  /\ WF_vars(ReadyTimerG)
  /\ WF_vars(InitialSpinG)
  /\ WF_vars(SpinTimerG)
  /\ WF_vars(TickG)
  /\ \A i \in 1..MaxPending : WF_vars(AnimateG(i))
  /\ WF_vars(ShowTimerG)

\* ------------------------------------------------------------- SpecEdge
\* The measured-edge GraphNav under any parent: onSelect supplied or not,
\* currentView supplied or not.
InitEdge ==
  /\ InitHome /\ ~mq /\ g_variant = "expansion"
  /\ \E hasOnSelect \in BOOLEAN, currentView \in CurrentViews :
       InitE(hasOnSelect, currentView)
  /\ InitT
  /\ InitL("part_001")
  /\ InitR

NextEdge ==
  \/ \E size \in SizesE : ResizeE(size)
  \/ EdgeTimerE
  \/ \E finished \in BOOLEAN : AnimateE(finished)
  \/ TransitionEndE
  \/ RafComputeEdgesE
  \/ \E view \in CurrentViews : SetCurrentViewE(view)
  \/ \E node \in UserNodes : MouseEnterE(node)
  \/ MouseLeaveE
  \/ \E node \in UserNodes : TabE(node)
  \/ \E node \in UserNodes : ClickE(node)
  \/ \E key \in Keys, node \in UserNodes : KeyDownE(key, node)

SpecEdge == InitEdge /\ [][NextEdge]_vars

\* Pending timeouts and animation frames do run; what the user and the
\* parent do is up to them.
FairEdge ==
  /\ SpecEdge
  /\ WF_vars(EdgeTimerE)
  /\ WF_vars(RafComputeEdgesE)

TypeOKE ==
  /\ e_hasOnSelect \in BOOLEAN
  /\ e_currentView \in CurrentViews
  /\ e_containerSize \in SizesE
  /\ e_edgesDisabled \in BOOLEAN
  /\ e_hoveredId \in UserNodes \cup {"null"}
  /\ e_pointer \in UserNodes \cup {"none"}
  /\ Len(e_calls) <= MaxCalls
  /\ ~e_hasOnSelect => e_calls = <<>>
  /\ e_edgeTimer \in BOOLEAN
  /\ e_rafs \in 0..MaxRaf
  /\ e_isAnimating \in BOOLEAN
  /\ e_edges \in {"none", "drawn"}

\* ------------------------------------------------------------- SpecType
InitType == InitAll /\ g_variant = "expansion"

NextType ==
  \/ \E text \in Texts, speedMs \in SpeedValues, startDelayMs \in DelayValues :
       MountT(text, speedMs, startDelayMs)
  \/ UnmountT
  \/ \E text \in Texts, speedMs \in SpeedValues, startDelayMs \in DelayValues :
       SetPropsT(text, speedMs, startDelayMs)
  \/ MqChangeT
  \/ FlushEffectsT
  \/ \E rec \in t_timers : StartTimerT(rec)
  \/ \E rec \in t_timers : TickT(rec)

SpecType == InitType /\ [][NextType]_vars

\* Passive effects, timers and intervals that are pending do run.
FairType ==
  /\ SpecType
  /\ WF_vars(FlushEffectsT)
  /\ WF_vars(\E rec \in t_timers : StartTimerT(rec))
  /\ WF_vars(\E rec \in t_timers : TickT(rec))

TypeOKT ==
  /\ t_mounted \in BOOLEAN
  /\ t_text \in Texts
  /\ t_display \in Texts
  /\ t_runs \in 0..MaxRuns
  /\ t_run \in 0..t_runs
  /\ \A rec \in t_timers : rec.i \in 0..MaxText /\ rec.text \in Texts
  /\ t_listening => t_mounted \/ t_dirty

\* ----------------------------------------------------------- SpecLayout
InitLayout ==
  /\ InitHome /\ ~mq /\ g_variant = "expansion"
  /\ InitE(TRUE, "graph")
  /\ InitT
  /\ \E part \in LayoutParts : InitL(part)
  /\ InitR

NextLayout == \E width \in Dims, height \in Dims : UpdateSizeL(width, height)

SpecLayout == InitLayout /\ [][NextLayout]_vars

TypeOKL ==
  /\ l_part \in LayoutParts
  /\ l_positions # <<>> =>
       /\ l_size.w \in Dims /\ l_size.h \in Dims
       /\ \A k \in 1..Len(l_positions) : l_positions[k].x \in Int /\ l_positions[k].y \in Int

\* ------------------------------------------------------------- SpecTrim
InitTrim ==
  /\ InitHome /\ ~mq /\ g_variant = "expansion"
  /\ InitE(TRUE, "graph")
  /\ InitT
  /\ InitL("part_001")
  /\ InitR

NextTrim ==
  \/ \E center \in Centers, off \in Offsets, centerRadius \in CenterRadii,
        nodeRadius \in NodeRadii, padding \in Paddings :
       TrimR(center, off, centerRadius, nodeRadius, padding)
  \/ \E center \in Centers, off \in Offsets : EdgeR(center, off)

SpecTrim == InitTrim /\ [][NextTrim]_vars

TypeOKR ==
  /\ r_fn \in {"none", "computeTrimmedEdge", "edges"}
  /\ r_edge.start.finite \in BOOLEAN /\ r_edge.end.finite \in BOOLEAN
  /\ r_edge.start.x \in Int /\ r_edge.end.x \in Int

TypeOKP ==
  /\ p_view \in {"graph", "revealing", "hero"}
  /\ p_graphKey \in 0..MaxGraphKey
  /\ g_spinKey \in 0..MaxSpinKey
  /\ h_initialSpins \in 0..MaxSpinKey
  /\ g_expandingNode \in SatIds \cup {"null"}
  /\ g_selectedNode \in SatIds \cup {"null"}
  /\ g_expansionProgress \in 0..ExpansionTicks
  /\ Pending <= MaxPending
  /\ focus \in UserNodes \cup {"body"}

\* In this composition handleSelect is reached for a satellite only under
\* reduced motion, so the page never leaves "graph" and its 520 ms timer is
\* never started.
NoRevealP == p_view = "graph" /\ p_timers = <<>>

TypeOKZ ==
  /\ z_view \in {"graph", "zooming", "hero"}
  /\ z_timers \in 0..MaxSpinKey
  /\ s_spinKey \in 0..MaxSpinKey
  /\ s_size \in Sizes
  /\ focus \in NodeIds \cup {"body", "heroHeading"}

\* A step in which handleSelect runs for the home node and reads `reduced`.
HomeSelectRunsZ(reduced) ==
  \/ /\ s_reduced
     /\ z_reduced = reduced
     /\ ClickS("home") \/ KeyS("home")
  \/ /\ SpinTimerS
     /\ Head(s_timers).reduced = reduced

\* C1: in the zooming Home page, a home selection that reads the
\* reduced-motion flag as true sets view to "hero" in that very step, whatever
\* the view was: "zooming" is not entered and no 520 ms timer is added.
C1_ReducedSkipsZoom ==
  [][HomeSelectRunsZ(TRUE) =>
       /\ z_view' = "hero"
       /\ z_timers' = z_timers
       /\ z_raf']_vars

\* C1 witness: the hero was revealed from a graph whose wheel never spun and
\* with no 520 ms timer having been left behind.
C1_Witness ==
  /\ z_view = "hero"
  /\ z_reduced
  /\ s_spinKey = 0
  /\ z_timers = 0
  /\ s_size # SizeOf(0)

\* C2: with motion enabled, "zooming" always leads to "hero" (the 520 ms
\* timer runs), and a step from "graph" straight to "hero" is only ever a
\* selection that read the reduced-motion flag as true.
C2_ZoomResolves ==
  /\ (z_view = "zooming") ~> (z_view = "hero")
  /\ [][(z_view = "graph" /\ z_view' = "hero") => HomeSelectRunsZ(TRUE)]_vars

\* C2 witness: motion was enabled throughout, the wheel spun once for the
\* activation, its SPIN_MS timer and the 520 ms timer ran, the hero is shown.
C2_Witness ==
  /\ z_view = "hero"
  /\ ~mq
  /\ s_size = SizeOf(0)
  /\ s_spinKey = 1
  /\ s_timers = <<>>
  /\ z_timers = 0

\* C4 (as claimed): whatever view the Home page is in, it gets back to the
\* initial "graph" view, even for a user who keeps trying every event.
C4_GraphReachableAgain == (z_view # "graph") ~> (z_view = "graph")

\* What the code does instead: once the view has left "graph" no event or
\* callback brings it back.
C4_NoWayBackZ == [][z_view # "graph" => z_view' # "graph"]_vars

\* C9 (as claimed): while view = "zooming" no node activation is accepted.
C9_NoActivationWhileZooming ==
  [][z_view = "zooming" => ~(\E node \in UserNodes : ClickS(node) \/ KeyS(node))]_vars

\* ----------------------------------------------------- claims on SpecPage

\* Content is shown in place: showContent (expansion variant), selectedNode
\* set (modal variant).
ContentShownG ==
  \/ g_variant = "expansion" /\ g_showContent
  \/ g_variant = "modal" /\ g_selectedNode # "null"

\* A step that activates the home node, by click or by key.
HomeActivatedG == ClickHomeE \/ KeyHomeE \/ ClickHomeM \/ KeyHomeM

\* C3: on the current Home page, activating the home node eventually makes
\* view "hero": after the SPIN_MS timer when motion is enabled, in the same
\* step under reduced motion.
C3_HomeRevealsHero ==
  /\ (p_route = "/" /\ (c_spin # <<>> \/ p_graphKey > 0)) ~> (p_view = "hero")
  /\ [][(g_reduced /\ ~ContentShownG /\ HomeActivatedG) => p_view' = "hero"]_vars

C6_KeyEqualsClick ==
  [][\A node \in SatIds :
       (~Covered /\ KeySatE(node)) =>
         \E buttonPosition \in ButtonPositions(g_size) : ClickSatBodyE(node, buttonPosition)]_vars

\* C8: in the modal variant, with the modal open, a backdrop click, a click
\* on the close button and an Escape keydown each leave isModalOpen false and
\* selectedNode null; an Escape keydown with the modal closed changes nothing.
C8_ModalCloses ==
  /\ [][(g_isModalOpen /\ (BackdropClickM \/ CloseButtonM \/ EscapeM)) =>
          (~g_isModalOpen' /\ g_selectedNode' = "null")]_vars
  /\ [][(~g_isModalOpen /\ EscapeM) => UNCHANGED <<mq, focus, pvars, gvars, cvars>>]_vars

\* C8 witness: the modal variant just after Escape closed the open modal.
C8_Witness ==
  /\ g_variant = "modal"
  /\ h_closedBy = "escape"
  /\ ~g_isModalOpen /\ g_selectedNode = "null"

\* C10: every callback of a GraphNav instance that runs (the SPIN_MS timer of
\* activate, a frame of the animate loop, the 200 ms timer) runs while the
\* instance that scheduled it is still mounted.
C10_NoCallbackAfterUnmount ==
  [][/\ SpinTimerG => Alive(Head(c_spin).owner)
     /\ ShowTimerG => Alive(Head(c_show).owner)
     /\ \A i \in 1..Len(c_loops) : AnimateG(i) => Alive(c_loops[i].owner)]_vars

\* ----------------------------------------------------- claims on SpecEdge

\* C7: for every node, with or without an onSelect prop, Enter or Space on
\* the node leaves edgesDisabled and the onSelect calls as handleNodeClick
\* would have left them from the same state.
C7_KeyEqualsClick ==
  [][\A node \in UserNodes : \A key \in {"Enter", " "} :
       KeyDownE(key, node) =>
         /\ e_edgesDisabled' = handleNodeClick(CompE, node).edgesDisabled
         /\ e_calls' = handleNodeClick(CompE, node).calls]_vars

\* A dimension of the measured container is 0.
ZeroSizeE == e_containerSize.w = 0 \/ e_containerSize.h = 0

C25_EdgesComeBack ==
  (e_edgesDisabled /\ e_currentView \in {"graph", "undefined"})
    ~> (~e_edgesDisabled \/ e_currentView \notin {"graph", "undefined"})

\* C26: over the lifetime of one GraphNav instance the timer of the size
\* effect increments spinKey once and no more, whatever resizes and
\* reduced-motion changes follow.
C26_InitialSpinOnce == h_initialSpins <= 1

\* C28: in the expansion variant, in every reachable state, content that
\* is shown belongs to a node: showContent implies expandingNode is not null.
C28_ShownContentHasNode ==
  (g_variant = "expansion" /\ g_showContent) => g_expandingNode # "null"

\* C29: in the expansion variant, content is shown only after the latest
\* expansion has completed: when showContent becomes true for a node, no
\* animate loop of the mounted instance is still short of progress 1, and no
\* animation frame ever lowers expansionProgress.
C29_ContentAfterOwnExpansion ==
  [][g_variant = "expansion" =>
       /\ (~g_showContent /\ g_showContent' /\ g_expandingNode' # "null") =>
            /\ g_expansionProgress' = ExpansionTicks
            /\ \A i \in 1..Len(c_loops') :
                 Alive(c_loops'[i].owner) => c_loops'[i].elapsed = ExpansionTicks
       /\ (\E i \in 1..Len(c_loops) : AnimateG(i)) =>
            g_expansionProgress' >= g_expansionProgress]_vars

\* C30: in the modal variant mounted by the Home page, an open modal stays
\* open until the user closes it: every step that ends with the modal no
\* longer open, or open on another node, is a backdrop click, a click on the
\* close button, an Escape keydown or a home activation, never a timer.
C30_ModalClosedByUserOnly ==
  [][(g_variant = "modal" /\ p_route = "/" /\ g_isModalOpen /\ g_selectedNode # "null"
        /\ (~g_isModalOpen' \/ g_selectedNode' # g_selectedNode)) =>
       (BackdropClickM \/ CloseButtonM \/ EscapeM \/ ClickHomeM \/ KeyHomeM)]_vars

\* A step that activates a satellite, by click or by key, in either variant.
SatActivatedG ==
  \E node \in SatIds : ClickSatE(node) \/ KeySatE(node) \/ ClickSatM(node) \/ KeySatM(node)

\* C11: every node activation of GraphNav.tsx, by click or by key, on the
\* home node or on a satellite, in the expansion and in the modal variant,
\* leaves no element focused: the focused element has been blurred.
C11_ActivationBlurs ==
  [][(HomeActivatedG \/ SatActivatedG) => focus' = "body"]_vars

\* ------------------------------------------------------------- Typewriter claims

\* Some pending interval ticks.
TickFiresT == \E rec \in t_timers : TickT(rec)

\* C12: with motion enabled, the mounted Typewriter's display is in every
\* state a prefix of the current text prop, never longer than it, and each
\* interval tick lengthens the display by exactly one character.
C12_DisplayIsGrowingPrefix ==
  /\ []((t_mounted /\ ~t_reduced) =>
          (IsPrefix(t_display, t_text) /\ Len(t_display) <= Len(t_text)))
  /\ [][(TickFiresT /\ t_mounted /\ ~t_reduced) =>
          Len(t_display') = Len(t_display) + 1]_vars


\* C13: with motion enabled, props unchanged and the component mounted,
\* typing terminates: every run of the typing effect leads to the display
\* being the full text with no timer left, unless the effect is re-triggered
\* or torn down first; the tick that completes the text clears the interval,
\* so no interval that has reached the end of its text (or has ticked once on
\* the empty string) is ever pending.
C13_TypingTerminates ==
  /\ \A r \in 1..MaxRuns :
       (t_run = r /\ t_mounted /\ ~t_reduced /\ ~t_dirty)
         ~> (t_run # r \/ t_dirty \/ (t_display = t_text /\ t_timers = {}))
  /\ [][\A rec \in t_timers' :
          rec.kind = "interval" => (rec.i = 0 \/ rec.i < Len(rec.text))]_vars

\* C13 witness: a text of full length has been typed out and no timer is left.
C13_Witness ==
  /\ t_mounted /\ ~t_reduced /\ ~t_dirty /\ t_run > 0
  /\ Len(t_text) = MaxText /\ t_display = t_text /\ t_timers = {}

\* C14: whenever the typing effect runs with the reduced-motion flag true,
\* display becomes the full text at once and no timer is scheduled or left;
\* and if the flag is true while timers of a typing run are still pending,
\* they get cancelled and display becomes the full text.
C14_ReducedShowsFullText ==
  /\ [][(FlushEffectsT /\ t_mounted /\ t_reduced) =>
          (t_display' = t_text /\ t_timers' = {})]_vars
  /\ (t_mounted /\ t_reduced /\ t_timers # {})
       ~> (t_mounted /\ t_reduced /\ t_timers = {} /\ t_display = t_text)

\* C14 witness: the flag is true, the typing effect has run again with it and
\* a text of full length is displayed whole, with no timer pending.
C14_Witness ==
  /\ t_mounted /\ t_reduced /\ ~t_dirty /\ t_run >= 2
  /\ Len(t_text) = MaxText /\ t_display = t_text /\ t_timers = {}

\* C15: every pending start timer or interval belongs to the run of the
\* typing effect that has not been torn down yet: once the cleanup of a run
\* has run (unmount or a change of text, speedMs, startDelayMs or reduced),
\* none of its timers is pending, so none can call setDisplay any more.
C15_NoTimerSurvivesTeardown ==
  \A rec \in t_timers : t_run # 0 /\ rec.run = t_run

\* C15 witness: the component was unmounted while its interval was half way
\* through the text; the cleanup has run and no timer is left.
C15_Witness ==
  /\ ~t_mounted /\ ~t_dirty /\ t_run = 0 /\ t_runs > 0
  /\ Len(t_text) = MaxText /\ Len(t_display) = 1 /\ t_timers = {}

\* ----------------------------------------------------------- layout claims

\* calculatePositions has been applied to the measured size.
CalculatedL == l_part \in CalcParts /\ l_positions # <<>>

\* |a|
AbsL(a) == IF a < 0 THEN -a ELSE a

\* C16: for every width and height > 0, narrow or not, calculatePositions
\* returns exactly 6 positions (the center and 5 satellites), the first of
\* which is exactly (W / 2, H / 2).
C16_SixPositionsCenterFirst ==
  CalculatedL =>
    /\ Len(l_positions) = 6
    /\ l_positions[1] = [x |-> (l_size.w * Scale * Milli) \div 2,
                         y |-> (l_size.h * Scale * Milli) \div 2]

\* C16 witness: calculatePositions has been applied to a narrow container
\* that is higher than wide.
C16_Witness ==
  CalculatedL /\ l_size.w < 380 /\ l_size.h > l_size.w /\ Len(l_positions) = 6

\* C17: for every width and height > 0 the distance at which
\* calculatePositions places each satellite lies within the clamp range
\* [RADIUS_MIN, RADIUS_MAX] of its variant, in the standard and in the
\* narrow branch.
C17_PlacementWithinClamp ==
  CalculatedL =>
    \A i \in 1..5 :
      LET r == PlacementRadius(l_part, l_size.w, l_size.h, i)
      IN  RadiusMin(l_part) * Scale <= r /\ r <= RadiusMax(l_part) * Scale

\* C18: for a container of width 300 and any height > 0, calculatePositions
\* yields exactly 5 satellite positions, no two of which coincide.
C18_NarrowSatellitesDistinct ==
  (CalculatedL /\ l_size.w = 300) =>
    /\ Len(l_positions) = 6
    /\ \A j, k \in 2..Len(l_positions) : j # k => l_positions[j] # l_positions[k]

\* C19: in the narrow branch (width < 380) every satellite, on the outer
\* and on the inner arc, is at least the inner-arc floor of its variant
\* (100 px, 130 px) away from the center. (The narrow angles are multiples
\* of a quarter turn, so the distance is |dx| + |dy|.)
C19_NarrowSatellitesClearOfCenter ==
  (CalculatedL /\ l_size.w < 380) =>
    \A k \in 2..Len(l_positions) :
      AbsL(l_positions[k].x - l_positions[1].x) + AbsL(l_positions[k].y - l_positions[1].y)
        >= InnerFloor(l_part) * Scale * Milli

\* The standard (one circle) layout has been computed.
StandardL ==
  l_positions # <<>> /\ (l_part = "GraphNav.tsx" \/ l_size.w >= 380)

\* C20: in the standard layout the 5 satellites lie on one circle around the
\* center, satellite i at the angle i * 360 / 5 degrees (less 90 degrees in
\* GraphNav.tsx, where satellite 0 is at 12 o'clock): all are at the radius
\* of satellite 0 and consecutive angles are 72 degrees apart.
C20_StandardEquallySpaced ==
  StandardL =>
    LET first == IF l_part = "GraphNav.tsx" THEN 1 ELSE 2
        offset == IF l_part = "GraphNav.tsx" THEN -90 ELSE 0
        cx == IF l_part = "GraphNav.tsx" THEN CenterOf(l_size).x * Milli
                                         ELSE l_positions[1].x
        cy == IF l_part = "GraphNav.tsx" THEN CenterOf(l_size).y * Milli
                                         ELSE l_positions[1].y
        r == IF l_part = "GraphNav.tsx" THEN (cy - l_positions[first].y) \div Milli
                                        ELSE (l_positions[first].x - cx) \div Milli
    IN  /\ Len(l_positions) = first + 4
        /\ r > 0
        /\ \A i \in 0..4 :
             /\ l_positions[first + i].x = cx + r * CosMilli(i * (360 \div 5) + offset)
             /\ l_positions[first + i].y = cy + r * SinMilli(i * (360 \div 5) + offset)
             /\ l_part = "GraphNav.tsx" =>
                  l_positions[first + i].angle = i * (360 \div 5) - 90

\* C20 witness: the standard layout of part_001 for a wide container.
C20_Witness ==
  StandardL /\ l_part = "part_001" /\ l_size.w >= 800 /\ Len(l_positions) = 6

\* ---------------------------------------------------- edge trimming claims

\* The sum of the distances along x and along y between two points. For
\* points on one line through c it is proportional to their distance from c.
DistR(p, c) == AbsL(p.x - c.x * Milli) + AbsL(p.y - c.y * Milli)

\* The center the last edge was computed for.
CenterR == [x |-> r_args.centerX, y |-> r_args.centerY]

\* The node is not at the center.
NotCoincidentR == r_args.nodeX # r_args.centerX \/ r_args.nodeY # r_args.centerY

\* C22: for every input of computeTrimmedEdge whose center and node do not
\* coincide, with any non-negative radii and padding, the returned start is
\* strictly closer to the center than the returned end.
C22_StartCloserThanEnd ==
  (r_fn = "computeTrimmedEdge" /\ NotCoincidentR) =>
    DistR(r_edge.start, CenterR) < DistR(r_edge.end, CenterR)

\* C23: trimming an edge whose node position equals the center position
\* divides by nothing that is zero (every returned coordinate is a number)
\* and returns the degenerate edge from the center point to the node point,
\* in computeTrimmedEdge as in the edges of GraphNav.tsx.
C23_ZeroLengthIsSafe ==
  r_fn # "none" =>
    /\ r_edge.start.finite /\ r_edge.end.finite
    /\ ~NotCoincidentR =>
         /\ r_edge.start = [x |-> r_args.centerX * Milli, y |-> r_args.centerY * Milli,
                            finite |-> TRUE]
         /\ r_edge.end = [x |-> r_args.nodeX * Milli, y |-> r_args.nodeY * Milli,
                          finite |-> TRUE]

\* C23 witness: computeTrimmedEdge was called for a node at the center with
\* radii and padding that are not zero.
C23_Witness ==
  /\ r_fn = "computeTrimmedEdge" /\ ~NotCoincidentR
  /\ r_args.centerX # 0 /\ r_args.centerRadius > 0 /\ r_args.nodeRadius > 0
  /\ r_args.padding > 0

\* ---------------------------------------------------------- layout, stored

\* C24: in the routing GraphNav (part_000), after any sequence of resize
\* events the stored nodePositions are calculatePositions of the stored
\* containerSize: they depend on the current size alone, so two resizes to
\* the same size give the same positions whatever sizes came in between.
C24_NoLayoutDrift ==
  (l_part = "part_000" /\ l_positions # <<>>) =>
    l_positions = calculatePositions("part_000", l_size.w, l_size.h)

\* C24 witness: part_000 holds the positions of a container that is
\* neither the smallest nor the largest one measured.
C24_Witness ==
  /\ l_part = "part_000" /\ l_positions # <<>>
  /\ l_size.w = 400 /\ l_size.h = 300

\* C27: in GraphNav.tsx, for every measured width and height > 0, the
\* radius keeps every satellite button (NODE_DIAM wide and high, centred on
\* its position) inside the container, at least MARGIN from each edge.
C27_SatellitesInsideMargin ==
  (l_part = "GraphNav.tsx" /\ l_positions # <<>>) =>
    LET px == Scale * Milli
        half == (NODE_DIAM * px) \div 2
    IN  \A k \in 1..Len(l_positions) :
          /\ l_positions[k].x - half >= MARGIN * px
          /\ l_positions[k].x + half <= (l_size.w - MARGIN) * px
          /\ l_positions[k].y - half >= MARGIN * px
          /\ l_positions[k].y + half <= (l_size.h - MARGIN) * px

====
